---- MODULE Spec2Model ----
(***************************************************************************)
(* Model of node_manager_daemon_fkie/launch_stub.py (class LaunchStub).    *)
(*                                                                         *)
(* Spec      get_included_files fed an arbitrary record stream             *)
(* SpecTree  get_included_files fed the pre-order emission of a tree       *)
(* SpecSet   get_included_files_set fed an arbitrary record stream         *)
(* SpecCalls the status-carrying calls: load_launch, reload_launch,        *)
(*           unload_launch, start_node, start_standalone_node              *)
(***************************************************************************)
EXTENDS Integers, Sequences, FiniteSets, TLC

VARIABLES
    root,          \* get_included_files: parameter root
    result,        \* get_included_files: local result (nested list of tuples)
    queue,         \* get_included_files: local queue, list of (root_path, list)
    current_root,  \* get_included_files: local current_root
    last_root,     \* get_included_files: local last_root
    response,      \* the record bound by "for response in reply"
    reply,         \* the records the loop has pulled from the stream so far
    pc,            \* "loop" | "done" (returned) | "failed" (raised)
    error,         \* the exception raised, NoError otherwise
    tree,          \* SpecTree: the include tree the remote side is emitting
    set_result,    \* get_included_files_set: local result (a set)
    set_return,    \* get_included_files_set: the returned list
    call,          \* SpecCalls: the adapter call in progress
    startcfg,      \* SpecCalls: argument of start_standalone_node
    request,       \* SpecCalls: the request message built by the call
    rpc_response,  \* SpecCalls: the response (or stream element) received
    outcome        \* SpecCalls: what the call did (return / raise)

vars == <<root, result, queue, current_root, last_root, response, reply, pc,
          error, tree, set_result, set_return, call, startcfg, request,
          rpc_response, outcome>>

treeVars == <<root, result, queue, current_root, last_root, response, reply,
              pc, error, tree>>
setVars == <<set_result, set_return>>
callVars == <<call, startcfg, request, rpc_response, outcome>>

(***************************************************************************)
(* Bounds                                                                  *)
(***************************************************************************)
MaxRecords == 3
MaxNodes == 6
MaxSetRecords == 4
MaxResponses == 2
MaxSetFields == 3

(***************************************************************************)
(* Records of the GetIncludedFiles stream (lmsg.IncludedFilesReply)        *)
(***************************************************************************)
Paths == {"/a", "/b", "/c", "/d"}
\* root_path may also be the empty string, the protobuf default
RootPaths == Paths \cup {""}
LineNrs == {1, 2}
QueryRoots == {"/a", ""}

IncludedFilesReply ==
    [root_path : RootPaths, linenr : LineNrs, path : Paths, exists : BOOLEAN]

NoResponse == [root_path |-> "", linenr |-> 0, path |-> "", exists |-> FALSE]
NoError == [type |-> "none"]

(***************************************************************************)
(* Python lists are references: a frame of queue holds the list object     *)
(* itself.  A list inside result is addressed by the sequence of indexes   *)
(* leading to it: <<>> is result, <<i>> is result[i][3], <<i, j>> is       *)
(* result[i][3][j][3] (0-based tuple field 3 is field 4 here).             *)
(***************************************************************************)
RECURSIVE ListAt(_, _)
ListAt(forest, ref) ==
    IF ref = <<>> THEN forest
    ELSE ListAt(forest[Head(ref)][4], Tail(ref))

\* list.append(node) on the list addressed by ref
RECURSIVE ListAppend(_, _, _)
ListAppend(forest, ref, node) ==
    IF ref = <<>> THEN Append(forest, node)
    ELSE [forest EXCEPT ![Head(ref)][4] = ListAppend(@, Tail(ref), node)]

\* the tuple built with a constant in place of response.exists
NewItem_Exists(r) == <<r.linenr, r.path, TRUE, <<>>>>

\* (response.linenr, response.path, response.exists, [])
NewItem(r) == <<r.linenr, r.path, r.exists, <<>>>>

\* queue[-1]
Top(q) == q[Len(q)]

\* queue[-1][1][0][3]: the first item in place of the last
LastItemList_First(q, forest) == Top(q)[2] \o <<1>>

\* queue[-1][1][-1][3]: the child list of the last item of the top frame's list
LastItemList(q, forest) ==
    Top(q)[2] \o <<Len(ListAt(forest, Top(q)[2]))>>

\* "if" in place of "while": a single pop
PopWhile_Once(last_item, q, root_path) == [last_item |-> last_item, queue |-> q]

\* last_item = queue.pop(); while last_item[0] != root_path and queue: pop
RECURSIVE PopWhile(_, _, _)
PopWhile(last_item, q, root_path) ==
    IF last_item[1] # root_path /\ q # <<>>
    THEN PopWhile(q[Len(q)], SubSeq(q, 1, Len(q) - 1), root_path)
    ELSE [last_item |-> last_item, queue |-> q]

\* every frame popped, whatever its root_path
PopFrames_Bottom(q, root_path) == [last_item |-> q[1], queue |-> <<>>]

PopFrames(q, root_path) ==
    PopWhile(q[Len(q)], SubSeq(q, 1, Len(q) - 1), root_path)

\* the message formatted with response.path
WrongRootError_Path(r) ==
    [type |-> "Exception", fmt |-> "wrong root item: %s", arg |-> r.path]

\* Exception("wrong root item: %s" % response.root_path)
WrongRootError(r) ==
    [type |-> "Exception", fmt |-> "wrong root item: %s", arg |-> r.root_path]

\* queue[-1][1][-1] on an empty list
IndexError == [type |-> "IndexError"]

(***************************************************************************)
(* get_included_files: state after lines 188-192                           *)
(***************************************************************************)
InitIncluded ==
    /\ root \in QueryRoots
    /\ result = <<>>
    /\ queue = << <<root, <<>>>> >>
    /\ current_root = root
    /\ last_root = ""
    /\ response = NoResponse
    /\ reply = <<>>
    /\ pc = "loop"
    /\ error = NoError

\* lines 194-196
Sibling(r) ==
    /\ current_root = r.root_path
    /\ last_root' = r.path
    /\ result' = ListAppend(result, Top(queue)[2], NewItem(r))
    /\ UNCHANGED <<queue, current_root, pc, error>>

\* lines 197-201
Descend(r) ==
    /\ current_root # r.root_path
    /\ last_root = r.root_path
    /\ ListAt(result, Top(queue)[2]) # <<>>
    /\ queue' = Append(queue, <<last_root, LastItemList(queue, result)>>)
    /\ current_root' = last_root
    /\ last_root' = r.path
    /\ result' = ListAppend(result, LastItemList(queue, result), NewItem(r))
    /\ UNCHANGED <<pc, error>>

\* line 198 when the top frame's list is still empty: [][-1] raises
DescendEmpty(r) ==
    /\ current_root # r.root_path
    /\ last_root = r.root_path
    /\ ListAt(result, Top(queue)[2]) = <<>>
    /\ pc' = "failed"
    /\ error' = IndexError
    /\ UNCHANGED <<result, queue, current_root, last_root>>

\* lines 202-210
Ascend(r) ==
    /\ current_root # r.root_path
    /\ last_root # r.root_path
    /\ LET p == PopFrames(queue, r.root_path) IN
        /\ p.last_item[1] = r.root_path
        /\ current_root' = r.root_path
        /\ queue' = Append(p.queue, p.last_item)
        /\ last_root' = r.path
        /\ result' = ListAppend(result, p.last_item[2], NewItem(r))
    /\ UNCHANGED <<pc, error>>

\* lines 202-205, 211-212
WrongRoot(r) ==
    /\ current_root # r.root_path
    /\ last_root # r.root_path
    /\ LET p == PopFrames(queue, r.root_path) IN
        /\ p.last_item[1] # r.root_path
        /\ queue' = p.queue
    /\ pc' = "failed"
    /\ error' = WrongRootError(r)
    /\ UNCHANGED <<result, current_root, last_root>>

\* one iteration of "for response in reply" (lines 193-212)
LoopBody(r) ==
    /\ pc = "loop"
    /\ response' = r
    /\ reply' = Append(reply, r)
    /\ \/ Sibling(r)
       \/ Descend(r)
       \/ DescendEmpty(r)
       \/ Ascend(r)
       \/ WrongRoot(r)

\* end of stream: line 213, return result
ReturnResult ==
    /\ pc = "loop"
    /\ pc' = "done"
    /\ UNCHANGED <<root, result, queue, current_root, last_root, response,
                   reply, error>>

(***************************************************************************)
(* SpecTree: the remote side walks an include tree depth first and emits   *)
(* one record per include when it meets it: the record's root_path is the  *)
(* path of the including file, root for the top level.  Every prefix of    *)
(* such an emission is the emission of the tree met so far, kept in tree.  *)
(* The next include belongs to the file emitted last or to one of the      *)
(* files still open above it.  launch_stub.py only compares paths for      *)
(* equality, so an include names a path already met or the first unused    *)
(* name of TreeNames.  Its line number is its rank among the includes of   *)
(* its file and it exists when its path is one of ExistingFiles.           *)
(***************************************************************************)
TreeNames == <<"/a", "/b", "/c", "/d", "/e">>
TreeRoot == TreeNames[1]
ExistingFiles == {"/a", "/b", "/d"}

NameIndex(p) == CHOOSE i \in 1..Len(TreeNames) : TreeNames[i] = p

\* the names an include may carry after the records in rs
NextNames(rs) ==
    LET used == {1} \cup {NameIndex(rs[i].path) : i \in 1..Len(rs)}
        top == CHOOSE i \in used : \A j \in used : j <= i
    IN {TreeNames[i] : i \in 1..(IF top < Len(TreeNames) THEN top + 1 ELSE top)}

\* address of the node emitted last: the last child of the last child ...
RECURSIVE Spine(_)
Spine(forest) ==
    IF forest = <<>> THEN <<>>
    ELSE <<Len(forest)>> \o Spine(forest[Len(forest)][4])

\* path of the file whose include list is addressed by ref
OwnerPath(forest, ref, rootpath) ==
    IF ref = <<>> THEN rootpath
    ELSE ListAt(forest, SubSeq(ref, 1, Len(ref) - 1))[ref[Len(ref)]][2]

EmitTo(ref, p) ==
    [root_path |-> OwnerPath(tree, ref, root),
     linenr |-> Len(ListAt(tree, ref)) + 1,
     path |-> p,
     exists |-> p \in ExistingFiles]

Emit ==
    /\ Len(reply) < MaxNodes
    /\ \E d \in 0..Len(Spine(tree)), p \in NextNames(reply) :
          LET ref == SubSeq(Spine(tree), 1, d) IN
            /\ tree' = ListAppend(tree, ref, NewItem(EmitTo(ref, p)))
            /\ LoopBody(EmitTo(ref, p))
    /\ UNCHANGED root

EndOfTree ==
    /\ ReturnResult
    /\ UNCHANGED tree

InitOther ==
    /\ set_result = {}
    /\ set_return = <<>>
    /\ call = "none"
    /\ startcfg = <<>>
    /\ request = <<>>
    /\ rpc_response = <<>>
    /\ outcome = [kind |-> "none"]

Init ==
    /\ InitIncluded
    /\ tree = <<>>
    /\ InitOther

Receive ==
    /\ Len(reply) < MaxRecords
    /\ \E r \in IncludedFilesReply : LoopBody(r)
    /\ UNCHANGED <<root, tree>>

EndOfStream ==
    /\ ReturnResult
    /\ UNCHANGED tree

Next ==
    \/ Receive /\ UNCHANGED <<setVars, callVars>>
    \/ EndOfStream /\ UNCHANGED <<setVars, callVars>>

Spec == Init /\ [][Next]_vars

NextTree ==
    \/ Emit /\ UNCHANGED <<setVars, callVars>>
    \/ EndOfTree /\ UNCHANGED <<setVars, callVars>>

InitTree == Init /\ root = TreeRoot

SpecTree == InitTree /\ [][NextTree]_vars

(***************************************************************************)
(* get_included_files_set (lines 164-177)                                  *)
(***************************************************************************)
SetReplies ==
    [root_path : {"/a", "/b"}, linenr : {1}, path : {"/a", "/b", "/c"},
     exists : BOOLEAN]

\* result.add(response.root_path)
SetAdd_RootPath(s, r) == s \cup {r.root_path}

\* result.add(response.path)
SetAdd(s, r) == s \cup {r.path}

\* list(result): the elements of the set, each once, in an order the
\* interpreter chooses
ListOf(s) ==
    {l \in [1..Cardinality(s) -> s] : \A i, j \in DOMAIN l : l[i] = l[j] => i = j}

\* lines 175-176
SetLoopBody ==
    /\ pc = "loop"
    /\ Len(reply) < MaxSetRecords
    /\ \E r \in SetReplies :
        /\ response' = r
        /\ reply' = Append(reply, r)
        /\ set_result' = SetAdd(set_result, r)
    /\ UNCHANGED <<root, result, queue, current_root, last_root, pc, error,
                   tree, set_return>>

\* line 177
SetReturn ==
    /\ pc = "loop"
    /\ pc' = "done"
    /\ set_return' \in ListOf(set_result)
    /\ UNCHANGED <<root, result, queue, current_root, last_root, response,
                   reply, error, tree, set_result>>

NextSet ==
    \/ SetLoopBody /\ UNCHANGED callVars
    \/ SetReturn /\ UNCHANGED callVars

SpecSet == Init /\ [][NextSet]_vars

(***************************************************************************)
(* Status codes (lines 42-49) and the calls that read response.status      *)
(***************************************************************************)
OK == 0
ERROR == 1
ALREADY_OPEN == 2
MULTIPLE_BINARIES == 3
MULTIPLE_LAUNCHES == 4
PARAMS_REQUIRED == 5
FILE_NOT_FOUND == 6
NODE_NOT_FOUND == 7

StatusCodes == {OK, ERROR, ALREADY_OPEN, MULTIPLE_BINARIES, MULTIPLE_LAUNCHES,
                PARAMS_REQUIRED, FILE_NOT_FOUND, NODE_NOT_FOUND}

\* lmsg.ReturnStatus and the reply messages, drawn from small sets
Statuses == [code : StatusCodes, error_msg : {"m1", "m2"}]
PathLists == {<<>>, <<"/x">>, <<"/y", "/x">>}
ArgLists == {<<>>,
             <<[name |-> "A", value |-> "1"]>>,
             <<[name |-> "B", value |-> "2"], [name |-> "A", value |-> "1"]>>}
LoadLaunchReplies == [status : Statuses, path : PathLists, args : ArgLists]
ReloadReplies ==
    [status : Statuses, path : PathLists, changed_nodes : {<<>>, <<"/n">>}]
UnloadReplies == [status : Statuses, path : PathLists]
StartNodeReplies == [status : Statuses, path : PathLists, launch : PathLists]
StandaloneReplies == [status : Statuses, path : PathLists]

None == [py |-> "None"]
Return(value) == [kind |-> "return", value |-> value]
Raise(type, args) == [kind |-> "raise", type |-> type, args |-> args]
Running == [kind |-> "running"]

\* {arg.name: arg.value for arg in args}: a later entry replaces an earlier one
ArgDict(args) ==
    [n \in {args[i].name : i \in DOMAIN args} |->
        args[CHOOSE i \in DOMAIN args :
                /\ args[i].name = n
                /\ \A j \in DOMAIN args : args[j].name = n => j <= i].value]

\* d.items(): one (name, value) per key, in an order the interpreter chooses
DictItems(d) ==
    {[i \in DOMAIN o |-> <<o[i], d[o[i]]>>] : o \in ListOf(DOMAIN d)}

\* lines 68-78
LoadLaunchOutcome(resp) ==
    IF resp.status.code = OK
    THEN IF resp.path = <<>> THEN Raise("IndexError", <<>>)
         ELSE Return(<<resp.path[1], ArgDict(resp.args)>>)
    ELSE IF resp.status.code = MULTIPLE_LAUNCHES
    THEN Raise("LaunchSelectionRequest", <<resp.path, resp.status.error_msg>>)
    ELSE IF resp.status.code = PARAMS_REQUIRED
    THEN Raise("ParamSelectionRequest",
               <<ArgDict(resp.args), resp.status.error_msg>>)
    ELSE IF resp.status.code = ALREADY_OPEN
    THEN IF resp.path = <<>> THEN Raise("IndexError", <<>>)
         ELSE Raise("AlreadyOpenException",
                    <<resp.path[1], resp.status.error_msg>>)
    ELSE Raise("RemoteException", <<resp.status.code, resp.status.error_msg>>)

\* lines 57-78
load_launch ==
    /\ call = "none"
    /\ \E args \in {None, [A |-> "1"]}, resp \in LoadLaunchReplies :
        \E items \in DictItems(IF args = None THEN <<>> ELSE args) :
            /\ request' = [package |-> "pkg", launch |-> "a.launch", path |-> "",
                           request_args |-> FALSE, masteruri |-> "", host |-> "",
                           args |-> [i \in DOMAIN items |->
                                       [name |-> items[i][1],
                                        value |-> items[i][2]]]]
            /\ rpc_response' = <<resp>>
            /\ outcome' = LoadLaunchOutcome(resp)
    /\ call' = "load_launch"
    /\ UNCHANGED startcfg

\* lines 87-92
ReloadOutcome(path, resp) ==
    IF resp.status.code # OK
    THEN IF resp.status.code = FILE_NOT_FOUND
         THEN Raise("ResourceNotFound", <<path, resp.status.error_msg>>)
         ELSE Raise("RemoteException",
                    <<resp.status.code, resp.status.error_msg>>)
    ELSE Return(<<resp.path, resp.changed_nodes>>)

\* lines 80-92
reload_launch ==
    /\ call = "none"
    /\ \E path \in {"/l1", "/l2"}, resp \in ReloadReplies :
        /\ request' = [path |-> path, masteruri |-> ""]
        /\ rpc_response' = <<resp>>
        /\ outcome' = ReloadOutcome(path, resp)
    /\ call' = "reload_launch"
    /\ UNCHANGED startcfg

\* lines 129-134
UnloadOutcome(path, resp) ==
    IF resp.status.code # OK
    THEN IF resp.status.code = FILE_NOT_FOUND
         THEN Raise("ResourceNotFound", <<path, resp.status.error_msg>>)
         ELSE Raise("RemoteException",
                    <<resp.status.code, resp.status.error_msg>>)
    ELSE IF resp.path = <<>> THEN Raise("IndexError", <<>>)
    ELSE Return(resp.path[1])

\* lines 124-134
unload_launch ==
    /\ call = "none"
    /\ \E path \in {"/l1", "/l2"}, resp \in UnloadReplies :
        /\ request' = [path |-> path, masteruri |-> ""]
        /\ rpc_response' = <<resp>>
        /\ outcome' = UnloadOutcome(path, resp)
    /\ call' = "unload_launch"
    /\ UNCHANGED startcfg

\* lines 247-256: the body of "for response in response_stream"; a code no
\* branch names falls through and the loop goes on
StartNodeOutcome(resp) ==
    IF resp.status.code = 0 THEN Running
    ELSE IF resp.status.code = ERROR
    THEN Raise("StartException", <<resp.status.error_msg>>)
    ELSE IF resp.status.code = NODE_NOT_FOUND
    THEN Raise("StartException", <<resp.status.error_msg>>)
    ELSE IF resp.status.code = MULTIPLE_BINARIES
    THEN Raise("BinarySelectionRequest", <<resp.path, resp.status.error_msg>>)
    ELSE IF resp.status.code = MULTIPLE_LAUNCHES
    THEN Raise("LaunchSelectionRequest", <<resp.launch, resp.status.error_msg>>)
    ELSE Running

\* line 245 with _gen_node_list (lines 229-231): one lmsg.Node is sent
start_node ==
    /\ call = "none"
    /\ \E opt_binary \in {"", "/x"} :
        request' = <<[name |-> "/node", opt_binary |-> opt_binary,
                      opt_launch |-> "", loglevel |-> "", logformat |-> "",
                      masteruri |-> "", reload_global_param |-> FALSE]>>
    /\ call' = "start_node"
    /\ rpc_response' = <<>>
    /\ outcome' = Running
    /\ UNCHANGED startcfg

\* lines 246-256
start_node_response ==
    /\ call = "start_node"
    /\ outcome = Running
    /\ Len(rpc_response) < MaxResponses
    /\ \E resp \in StartNodeReplies :
        /\ rpc_response' = Append(rpc_response, resp)
        /\ outcome' = StartNodeOutcome(resp)
    /\ UNCHANGED <<call, startcfg, request>>

\* the stream ends: the function falls off its end and returns None
start_node_return ==
    /\ call = "start_node"
    /\ outcome = Running
    /\ outcome' = Return(None)
    /\ UNCHANGED <<call, startcfg, request, rpc_response>>

(***************************************************************************)
(* start_standalone_node (lines 258-307)                                   *)
(***************************************************************************)
CfgStrings == {"package", "binary", "binary_path", "name", "namespace",
               "fullname", "prefix", "cwd", "masteruri", "loglevel"}
CfgDicts == {"env", "remaps", "params"}
CfgLists == {"clear_params", "args"}
CfgRespawn == {"respawn", "respawn_delay", "respawn_max",
               "respawn_min_runtime"}
CfgFields == CfgStrings \cup CfgDicts \cup CfgLists \cup CfgRespawn

\* the value of a field the caller left alone
CfgDefault(f) ==
    CASE f \in CfgStrings -> ""
      [] f \in CfgDicts -> <<>>
      [] f \in CfgLists -> <<>>
      [] f = "respawn" -> FALSE
      [] OTHER -> 0

\* two values a caller may give a field
CfgValue(f, v) ==
    CASE f \in CfgStrings -> IF v = 1 THEN "x" ELSE "y"
      [] f = "env" -> IF v = 1 THEN [A |-> "1"] ELSE [A |-> "1", B |-> "2"]
      [] f = "remaps" -> IF v = 1 THEN [from |-> "to"] ELSE [f1 |-> "t1", f2 |-> "t2"]
      [] f = "params" -> IF v = 1 THEN [p |-> [t |-> "int", v |-> 1]]
                         ELSE [p |-> [t |-> "str", v |-> "s"],
                               q |-> [t |-> "bool", v |-> TRUE]]
      [] f \in CfgLists -> IF v = 1 THEN <<"u">> ELSE <<"u", "w">>
      [] f = "respawn" -> TRUE
      [] OTHER -> v

StartConfigs ==
    {[f \in CfgFields |-> IF f \in S THEN CfgValue(f, v) ELSE CfgDefault(f)] :
        S \in {T \in SUBSET CfgFields : Cardinality(T) <= MaxSetFields},
        v \in 1..2}

\* common.utf8: the text of a parameter value
utf8(x) ==
    CASE x.t = "str" -> x.v
      [] x.t = "int" -> ToString(x.v)
      [] x.t = "bool" -> IF x.v THEN "True" ELSE "False"

\* the assignment without its "if"
SetIf_Always(req, cond, f, value) == (f :> value) @@ req

\* "if startcfg.f: request.f = startcfg.f"
SetIf(req, cond, f, value) == IF cond THEN (f :> value) @@ req ELSE req

\* lines 267-298; env, remaps, params are the items() of the three mappings
StartConfigRequest(cfg, env, remaps, params) ==
    LET r0 == [package |-> cfg.package, binary |-> cfg.binary]
        r1 == SetIf(r0, cfg.binary_path # "", "binary_path", cfg.binary_path)
        r2 == SetIf(r1, cfg.name # "", "name", cfg.name)
        r3 == SetIf(r2, cfg.namespace # "", "namespace", cfg.namespace)
        r4 == SetIf(r3, cfg.fullname # "", "fullname", cfg.fullname)
        r5 == SetIf(r4, cfg.prefix # "", "prefix", cfg.prefix)
        r6 == SetIf(r5, cfg.cwd # "", "cwd", cfg.cwd)
        r7 == SetIf(r6, DOMAIN cfg.env # {}, "env",
                    [i \in DOMAIN env |->
                        [name |-> env[i][1], value |-> env[i][2]]])
        r8 == SetIf(r7, DOMAIN cfg.remaps # {}, "remaps",
                    [i \in DOMAIN remaps |->
                        [from_name |-> remaps[i][1], to_name |-> remaps[i][2]]])
        r9 == SetIf(r8, DOMAIN cfg.params # {}, "params",
                    [i \in DOMAIN params |->
                        [name |-> params[i][1], value |-> utf8(params[i][2])]])
        r10 == SetIf(r9, cfg.clear_params # <<>>, "clear_params", cfg.clear_params)
        r11 == SetIf(r10, cfg.args # <<>>, "args", cfg.args)
        r12 == SetIf(r11, cfg.masteruri # "", "masteruri", cfg.masteruri)
        r13 == SetIf(r12, TRUE, "loglevel", cfg.loglevel)
        r14 == SetIf(r13, TRUE, "respawn", cfg.respawn)
        r15 == SetIf(r14, TRUE, "respawn_delay", cfg.respawn_delay)
        r16 == SetIf(r15, TRUE, "respawn_max", cfg.respawn_max)
    IN SetIf(r16, TRUE, "respawn_min_runtime", cfg.respawn_min_runtime)

\* lines 300-307; a code no branch names falls off the end: returns None
StandaloneOutcome(cfg, resp) ==
    IF resp.status.code = 0 THEN Return(None)
    ELSE IF resp.status.code = MULTIPLE_BINARIES
    THEN Raise("BinarySelectionRequest", <<resp.path, "Multiple executables">>)
    ELSE IF resp.status.code = FILE_NOT_FOUND
    THEN Raise("StartException",
               <<[fmt |-> "Can't find %s in %s",
                  args |-> <<cfg.binary, cfg.package>>]>>)
    ELSE IF resp.status.code = ERROR
    THEN Raise("StartException", <<resp.status.error_msg>>)
    ELSE Return(None)

start_standalone_node ==
    /\ call = "none"
    /\ \E cfg \in StartConfigs, resp \in StandaloneReplies :
        \E env \in DictItems(cfg.env), remaps \in DictItems(cfg.remaps),
           params \in DictItems(cfg.params) :
            /\ startcfg' = cfg
            /\ request' = StartConfigRequest(cfg, env, remaps, params)
            /\ rpc_response' = <<resp>>
            /\ outcome' = StandaloneOutcome(cfg, resp)
    /\ call' = "start_standalone_node"

NextCalls ==
    \/ load_launch /\ UNCHANGED <<treeVars, setVars>>
    \/ reload_launch /\ UNCHANGED <<treeVars, setVars>>
    \/ unload_launch /\ UNCHANGED <<treeVars, setVars>>
    \/ start_node /\ UNCHANGED <<treeVars, setVars>>
    \/ start_node_response /\ UNCHANGED <<treeVars, setVars>>
    \/ start_node_return /\ UNCHANGED <<treeVars, setVars>>
    \/ start_standalone_node /\ UNCHANGED <<treeVars, setVars>>

SpecCalls == Init /\ [][NextCalls]_vars

(***************************************************************************)
(* Vocabulary of the properties                                            *)
(***************************************************************************)
Triple(r) == <<r.linenr, r.path, r.exists>>

\* the (linenr, path, exists) triples of a forest, parents before children,
\* children left to right
RECURSIVE Preorder(_)
Preorder(forest) ==
    IF forest = <<>> THEN <<>>
    ELSE <<SubSeq(Head(forest), 1, 3)>> \o Preorder(Head(forest)[4])
         \o Preorder(Tail(forest))

\* addresses of the items of a forest
RECURSIVE Addresses(_)
Addresses(forest) ==
    UNION {{<<i>>} \cup {<<i>> \o a : a \in Addresses(forest[i][4])} :
           i \in 1..Len(forest)}

ItemAt(forest, a) == ListAt(forest, SubSeq(a, 1, Len(a) - 1))[a[Len(a)]]

RECURSIVE Depth(_)
Depth(forest) ==
    IF forest = <<>> THEN 0
    ELSE LET ds == {Depth(forest[i][4]) : i \in 1..Len(forest)}
         IN 1 + CHOOSE d \in ds : \A e \in ds : e <= d

Branching(forest) ==
    LET bs == {Len(forest)} \cup {Len(ItemAt(forest, a)[4]) : a \in Addresses(forest)}
    IN CHOOSE b \in bs : \A c \in bs : c <= b

\* no item carries the path of the file it is (transitively) included from
RECURSIVE NoPathAgain(_, _)
NoPathAgain(forest, above) ==
    \A i \in 1..Len(forest) :
        /\ forest[i][2] \notin above
        /\ NoPathAgain(forest[i][4], above \cup {forest[i][2]})

Arrives == pc = "loop" /\ Len(reply') = Len(reply) + 1

\* the last item of the list the top frame holds carries path p
TopLastIs(p) ==
    LET l == ListAt(result, Top(queue)[2])
    IN l # <<>> /\ l[Len(l)][2] = p

(***************************************************************************)
(* C1: for every depth-first emission of a tree T rooted at the queried    *)
(* path, get_included_files raises nothing and its result is T.            *)
(***************************************************************************)
C1_AnyTree == pc # "failed" /\ result = tree

\* C1 as amended: the same for every tree in which no included file
\* carries the path of a file it is included from, the queried root included.
C1_TreeRebuilt ==
    NoPathAgain(tree, {root}) => (pc # "failed" /\ result = tree)

C1_Witness ==
    /\ pc = "done"
    /\ NoPathAgain(tree, {root})
    /\ Depth(tree) >= 4
    /\ Branching(tree) >= 3
    /\ result = tree

C1_WitnessFlat ==
    pc = "done" /\ Depth(tree) = 1 /\ Len(tree) = 3 /\ result = tree

(***************************************************************************)
(* C2: over root /a the stream (/a,1,/b,T), (/a,2,/c,T), (/b,1,/d,F)       *)
(* returns [(1,/b,T,[(1,/d,F,[])]), (2,/c,T,[])] and raises nothing.       *)
(***************************************************************************)
RecB == [root_path |-> "/a", linenr |-> 1, path |-> "/b", exists |-> TRUE]
RecC == [root_path |-> "/a", linenr |-> 2, path |-> "/c", exists |-> TRUE]
RecD == [root_path |-> "/b", linenr |-> 1, path |-> "/d", exists |-> FALSE]
ForestBDC == << <<1, "/b", TRUE, << <<1, "/d", FALSE, <<>>>> >>>>,
                <<2, "/c", TRUE, <<>>>> >>

C2_Original ==
    (root = "/a" /\ reply = <<RecB, RecC, RecD>>)
        => (pc # "failed" /\ result = ForestBDC)

\* C2 as amended: on that stream the third record raises "wrong root item:
\* /b" with /b and /c appended at the top level, and it is the stream with
\* the record of /d before the record of /c that returns the forest.
C2_Amended ==
    /\ (root = "/a" /\ reply = <<RecB, RecC, RecD>>)
         => /\ pc = "failed"
            /\ error = [type |-> "Exception", fmt |-> "wrong root item: %s",
                        arg |-> "/b"]
            /\ result = << <<1, "/b", TRUE, <<>>>>, <<2, "/c", TRUE, <<>>>> >>
    /\ (root = "/a" /\ reply = <<RecB, RecD, RecC>>)
         => (pc # "failed" /\ result = ForestBDC)

C2_Witness ==
    root = "/a" /\ reply = <<RecB, RecC, RecD>> /\ pc = "failed"

C2_WitnessPreorder ==
    root = "/a" /\ reply = <<RecB, RecD, RecC>> /\ pc = "done"

(***************************************************************************)
(* C3: a record whose root_path is that of a frame two or more levels      *)
(* below the top discards the frames above that frame and is appended at   *)
(* the end of that frame's list; the next records with the same root_path  *)
(* are appended to the same list.                                          *)
(***************************************************************************)
AscendsTo(i) ==
    /\ pc' = "loop"
    /\ queue' = SubSeq(queue, 1, i)
    /\ current_root' = queue[i][1]
    /\ result' = ListAppend(result, queue[i][2], NewItem(response'))

StaysUnder ==
    (Arrives /\ response'.root_path = current_root)
        => /\ queue' = queue
           /\ current_root' = current_root
           /\ result' = ListAppend(result, Top(queue)[2], NewItem(response'))

C3_Original ==
    [][ /\ (Arrives /\ \E i \in 1..(Len(queue) - 2) :
                          queue[i][1] = response'.root_path)
            => \E i \in 1..(Len(queue) - 2) :
                  queue[i][1] = response'.root_path /\ AscendsTo(i)
        /\ StaysUnder ]_vars

\* C3 as amended: the same when the record's root_path is neither the
\* root_path of a frame above that frame nor the path of the item appended
\* last.
C3_Amended ==
    [][ /\ \A i \in 1..(Len(queue) - 2) :
            (/\ Arrives
             /\ queue[i][1] = response'.root_path
             /\ \A j \in (i + 1)..Len(queue) : queue[j][1] # response'.root_path
             /\ last_root # response'.root_path)
                => AscendsTo(i)
        /\ StaysUnder ]_vars

\* two descents, then two records under the queried root
C3_Witness ==
    /\ pc = "loop"
    /\ Len(reply) = 5
    /\ NoPathAgain(tree, {root})
    /\ reply[1].root_path = root
    /\ reply[2].root_path = reply[1].path
    /\ reply[3].root_path = reply[2].path
    /\ reply[4].root_path = root
    /\ reply[5].root_path = root
    /\ queue = << <<root, <<>>>> >>
    /\ Len(result) = 3
    /\ result = tree

(***************************************************************************)
(* C4: a record whose root_path is neither the root_path of a frame on     *)
(* the stack nor the path of the last item of the top frame's list makes   *)
(* the call raise "wrong root item: <root_path>"; nothing is appended.     *)
(***************************************************************************)
C4_Claim ==
    [][ (/\ Arrives
         /\ \A i \in 1..Len(queue) : queue[i][1] # response'.root_path
         /\ ~TopLastIs(response'.root_path))
            => /\ pc' = "failed"
               /\ error' = [type |-> "Exception", fmt |-> "wrong root item: %s",
                            arg |-> response'.root_path]
               /\ result' = result ]_vars

(***************************************************************************)
(* C8: get_included_files_set returns the distinct paths of the stream,    *)
(* each once, whatever the root_path values and the order, and raises      *)
(* nothing.                                                                *)
(***************************************************************************)
C8_DistinctPaths ==
    /\ pc # "failed"
    /\ pc = "done" =>
        /\ {set_return[i] : i \in DOMAIN set_return}
              = {reply[i].path : i \in DOMAIN reply}
        /\ \A i, j \in DOMAIN set_return : set_return[i] = set_return[j] => i = j

C8_Witness ==
    /\ pc = "done"
    /\ Len(set_return) = 2
    /\ \E i, j \in DOMAIN reply :
        /\ reply[i].path = reply[j].path
        /\ reply[i].root_path # reply[j].root_path

(***************************************************************************)
(* C9: whenever the loop is about to take a record the stack is not        *)
(* empty, its bottom frame is (root, result), current_root is the top      *)
(* frame's root_path, every other frame is (path, child list) of the last  *)
(* item of the list of the frame below it, and once an item is appended    *)
(* last_root is the path of the last item of the top frame's list.         *)
(***************************************************************************)
C9_StackShape ==
    pc = "loop" =>
        /\ queue # <<>>
        /\ queue[1] = <<root, <<>>>>
        /\ current_root = Top(queue)[1]
        /\ \A i \in 2..Len(queue) :
            LET below == ListAt(result, queue[i - 1][2]) IN
                /\ below # <<>>
                /\ queue[i][1] = below[Len(below)][2]
                /\ queue[i][2] = queue[i - 1][2] \o <<Len(below)>>
        /\ result # <<>> => TopLastIs(last_root)

C9_Witness ==
    pc = "loop" /\ Len(queue) = 3 /\ Len(result) = 1

(***************************************************************************)
(* C10: after k records taken without raising the forest holds k items,    *)
(* its pre-order traversal is the (linenr, path, exists) triples of the    *)
(* records in stream order, and an item once appended keeps its place and  *)
(* its triple.                                                             *)
(***************************************************************************)
C10_Preorder ==
    [][ /\ pc' # "failed" =>
            /\ Cardinality(Addresses(result')) = Len(reply')
            /\ Preorder(result') = [i \in 1..Len(reply') |-> Triple(reply'[i])]
        /\ \A a \in Addresses(result) :
            /\ a \in Addresses(result')
            /\ SubSeq(ItemAt(result', a), 1, 3) = SubSeq(ItemAt(result, a), 1, 3) ]_vars

C10_Witness ==
    pc = "done" /\ Len(reply) = 3 /\ Depth(result) = 2 /\ Len(result) = 2

(***************************************************************************)
(* Vocabulary of the properties of the status-carrying calls               *)
(***************************************************************************)
LastResponse == rpc_response[Len(rpc_response)]

\* the codes a call names in a branch of its own
SpecialCased(c) ==
    CASE c = "load_launch" -> {MULTIPLE_LAUNCHES, PARAMS_REQUIRED, ALREADY_OPEN}
      [] c = "reload_launch" -> {FILE_NOT_FOUND}
      [] c = "unload_launch" -> {FILE_NOT_FOUND}
      [] c = "start_node" -> {ERROR, NODE_NOT_FOUND, MULTIPLE_BINARIES,
                              MULTIPLE_LAUNCHES}
      [] c = "start_standalone_node" -> {MULTIPLE_BINARIES, FILE_NOT_FOUND, ERROR}
      [] OTHER -> {}

Answered == call # "none" /\ rpc_response # <<>>

(***************************************************************************)
(* C5: a response whose code is not OK and that the call does not name in  *)
(* a branch of its own makes the call raise RemoteException(code, message);*)
(* after a response whose code is not OK no call goes on or returns.       *)
(***************************************************************************)
C5_Claim ==
    Answered =>
        /\ outcome.kind \in {"return", "running"}
              => \A i \in DOMAIN rpc_response : rpc_response[i].status.code = OK
        /\ (/\ LastResponse.status.code # OK
            /\ LastResponse.status.code \notin SpecialCased(call))
              => outcome = Raise("RemoteException",
                                 <<LastResponse.status.code,
                                   LastResponse.status.error_msg>>)

(***************************************************************************)
(* C6: the failure raised for a code a call names carries the fields the   *)
(* taxonomy lists, taken from the response: the candidate paths in the     *)
(* order received, the argument mapping, the path, and always the          *)
(* response's message.                                                     *)
(***************************************************************************)
\* the message is the last argument of the failure
CarriesMessage ==
    /\ outcome.kind = "raise"
    /\ outcome.args # <<>>
    /\ outcome.args[Len(outcome.args)] = LastResponse.status.error_msg

\* the failure is (first, message)
CarriesWithMessage(first) ==
    /\ outcome.kind = "raise"
    /\ Len(outcome.args) = 2
    /\ outcome.args[2] = LastResponse.status.error_msg
    /\ outcome.args[1] = first

C6_Claim ==
    (Answered /\ LastResponse.status.code \in SpecialCased(call)) =>
        LET resp == LastResponse
            code == resp.status.code
        IN CASE code = MULTIPLE_BINARIES -> CarriesWithMessage(resp.path)
             [] code = MULTIPLE_LAUNCHES ->
                    CarriesWithMessage(IF call = "start_node" THEN resp.launch
                                       ELSE resp.path)
             [] code = PARAMS_REQUIRED -> CarriesWithMessage(ArgDict(resp.args))
             [] code = ALREADY_OPEN ->
                    resp.path # <<>> => CarriesWithMessage(resp.path[1])
             [] code = FILE_NOT_FOUND ->
                    /\ CarriesMessage
                    /\ Len(outcome.args) = 2
                    /\ \/ outcome.args[1] = request.path
                       \/ \E i \in DOMAIN resp.path : outcome.args[1] = resp.path[i]
             [] OTHER -> outcome.kind = "raise" /\ outcome.args = <<resp.status.error_msg>>

(***************************************************************************)
(* C7: the request of start_standalone_node holds a field exactly when the *)
(* caller's value for it is not empty, except loglevel and the four        *)
(* respawn fields, which it always holds; every field it holds has the     *)
(* caller's value, and env, remaps and params hold one entry per key.      *)
(***************************************************************************)
Provided(f) ==
    CASE f \in CfgStrings -> startcfg[f] # ""
      [] f \in CfgDicts -> DOMAIN startcfg[f] # {}
      [] f \in CfgLists -> Len(startcfg[f]) > 0
      [] OTHER -> FALSE

\* the name and the value of entry e of the repeated field f
EntryOf(f, e) ==
    IF f = "remaps" THEN <<e.from_name, e.to_name>> ELSE <<e.name, e.value>>

TextOf(f, value) ==
    IF f # "params" THEN value
    ELSE CASE value.t = "str" -> value.v
           [] value.t = "int" -> IF value.v = 1 THEN "1" ELSE "2"
           [] value.t = "bool" -> IF value.v THEN "True" ELSE "False"

FieldsCarried ==
    /\ \A f \in DOMAIN request \ CfgDicts : request[f] = startcfg[f]
    /\ \A f \in DOMAIN request \cap CfgDicts :
        /\ Len(request[f]) = Cardinality(DOMAIN startcfg[f])
        /\ \A k \in DOMAIN startcfg[f] :
            \E i \in DOMAIN request[f] :
                EntryOf(f, request[f][i]) = <<k, TextOf(f, startcfg[f][k])>>

====
